---- MODULE Spec2Model ----
(***************************************************************************)
(* FIFA Koenig session tracker: the best-of-N series state machine, the    *)
(* session finalizer and the standings aggregator.                         *)
(*                                                                         *)
(* A nullable value (number | null, ActiveSession | null) is a sequence of *)
(* length 0 (null) or 1 (the value).                                       *)
(***************************************************************************)
EXTENDS Integers, Sequences, FiniteSets, TLC

VARIABLES
    db,             \* App: the snapshot {players, matches, kingSessions}
    tab,            \* App: the tab shown
    activeSession,  \* App: ActiveSession | null
    form,           \* StartSessionForm: mode, bestOf, sessionTeams, teamPlayers
    schedule,       \* ActiveSessionDisplay: its own copy of the schedule
    pc,             \* "effect" while the auto-finish effect of the last render is pending
    event,          \* the handler that ran last and the answer window.confirm got in it
    clock,          \* new Date(): the instant of the next finalization
    stats           \* Standings: the rows of TableStats, while the table tab is shown

vars == <<db, tab, activeSession, form, schedule, pc, event, clock, stats>>

(***************************************************************************)
(* Bounds of the model.  NumPlayers: the roster; MaxGoals: the largest     *)
(* score typed into a slot; MaxSessions: finalized series, after which the *)
(* form takes no more input; MaxBestOf: the largest series length offered  *)
(* by the form; MaxSeriesBestOf: the same for a series taken on its own;   *)
(* MaxMatches: the length of a stored match list; MaxStored: the length of *)
(* a stored list of finished sessions; MaxSaved: the matches saved from    *)
(* the new-match form.                                                     *)
(***************************************************************************)
NumPlayers == 3
MaxGoals == 1
MaxSessions == 1
MaxBestOf == 3
MaxSeriesBestOf == 5
MaxMatches == 2
MaxStored == 3
MaxSaved == 1

None == <<>>
Some(x) == <<x>>

Modes == {"1v1", "2v2"}
BestOfOptions == {3, 5, 7, 9}
Tabs == {"session", "table", "history", "settings"}

RECURSIVE FlatMapPlayers(_)
FlatMapPlayers(teams) ==
    IF teams = <<>> THEN <<>>
    ELSE Head(teams).players \o FlatMapPlayers(Tail(teams))

Includes(s, x) == \E i \in DOMAIN s : s[i] = x

(***************************************************************************)
(* Players.  A name is its rank in lexicographic order.                    *)
(***************************************************************************)
DefaultNames == <<2, 3, 1, 4, 5>>

PlayerName(i) == IF i \in DOMAIN DefaultNames THEN DefaultNames[i] ELSE i

DefaultPlayers == [i \in 1..NumPlayers |-> [id |-> i, name |-> PlayerName(i)]]

RECURSIVE nameOf(_, _)
nameOf(players, id) ==
    IF players = <<>> THEN 0
    ELSE IF Head(players).id = id THEN Head(players).name
    ELSE nameOf(Tail(players), id)

(***************************************************************************)
(* uid(): a fresh identifier; the least number no listed object carries.   *)
(***************************************************************************)
uid(used) == CHOOSE n \in 1..(Cardinality(used) + 1) : n \notin used

(***************************************************************************)
(* StartSessionForm                                                        *)
(***************************************************************************)
InitForm == [mode |-> "1v1", bestOf |-> 3, sessionTeams |-> <<>>, teamPlayers |-> <<>>]

playersPerTeam(mode) == IF mode = "1v1" THEN 1 ELSE 2

availablePlayers ==
    SelectSeq(db.players, LAMBDA p : ~Includes(FlatMapPlayers(form.sessionTeams), p.id))

FormMounted == tab = "session" /\ activeSession = None /\ pc = "idle"

FormOpen == FormMounted /\ Len(db.kingSessions) < MaxSessions

SetMode(m) ==
    /\ FormOpen
    /\ form' = [form EXCEPT !.mode = m, !.teamPlayers = <<>>]
    /\ event' = [op |-> "setMode", answer |-> "none"]
    /\ UNCHANGED <<db, tab, activeSession, schedule, pc, clock, stats>>

SetBestOf(b) ==
    /\ FormOpen
    /\ b <= MaxBestOf
    /\ form' = [form EXCEPT !.bestOf = b]
    /\ event' = [op |-> "setBestOf", answer |-> "none"]
    /\ UNCHANGED <<db, tab, activeSession, schedule, pc, clock, stats>>

toggleTeamPlayer(id) ==
    /\ FormOpen
    /\ Includes([i \in DOMAIN availablePlayers |-> availablePlayers[i].id], id)
    /\ form' = [form EXCEPT !.teamPlayers =
                    IF Includes(@, id) THEN SelectSeq(@, LAMBDA pId : pId # id)
                    ELSE IF Len(@) >= playersPerTeam(form.mode) THEN @
                    ELSE Append(@, id)]
    /\ event' = [op |-> "toggleTeamPlayer", answer |-> "none"]
    /\ UNCHANGED <<db, tab, activeSession, schedule, pc, clock, stats>>

TeamIds(teams) == {teams[i].id : i \in DOMAIN teams}

TeamNameOf(teamPlayers) == [i \in DOMAIN teamPlayers |-> nameOf(db.players, teamPlayers[i])]

addTeam ==
    /\ FormOpen
    /\ Len(form.sessionTeams) < 2
    /\ Len(form.teamPlayers) = playersPerTeam(form.mode)
    /\ form' = [form EXCEPT
                    !.sessionTeams = Append(@, [id |-> uid(TeamIds(@)),
                                                 name |-> TeamNameOf(form.teamPlayers),
                                                 players |-> form.teamPlayers]),
                    !.teamPlayers = <<>>]
    /\ event' = [op |-> "addTeam", answer |-> "none"]
    /\ UNCHANGED <<db, tab, activeSession, schedule, pc, clock, stats>>

removeTeam(teamId) ==
    /\ FormOpen
    /\ teamId \in TeamIds(form.sessionTeams)
    /\ form' = [form EXCEPT !.sessionTeams = SelectSeq(@, LAMBDA t : t.id # teamId)]
    /\ event' = [op |-> "removeTeam", answer |-> "none"]
    /\ UNCHANGED <<db, tab, activeSession, schedule, pc, clock, stats>>

\* Faulty variant: one slot short.
NewScheduleShort(teams, bestOf) ==
    [i \in 1..(bestOf - 1) |-> [id |-> i, teamA |-> teams[1], teamB |-> teams[2],
                                goalsA |-> None, goalsB |-> None]]

NewSchedule(teams, bestOf) ==
    [i \in 1..bestOf |-> [id |-> i, teamA |-> teams[1], teamB |-> teams[2],
                          goalsA |-> None, goalsB |-> None]]

NewActiveSession(teams, bestOf, mode) ==
    [teams |-> teams, schedule |-> NewSchedule(teams, bestOf), bestOf |-> bestOf, mode |-> mode]

handleStart ==
    /\ FormOpen
    /\ Len(form.sessionTeams) = 2
    /\ activeSession' = Some(NewActiveSession(form.sessionTeams, form.bestOf, form.mode))
    /\ schedule' = NewSchedule(form.sessionTeams, form.bestOf)
    /\ form' = InitForm
    /\ pc' = "effect"
    /\ event' = [op |-> "handleStart", answer |-> "none"]
    /\ UNCHANGED <<db, tab, clock, stats>>

(***************************************************************************)
(* ActiveSessionDisplay                                                    *)
(***************************************************************************)
DisplayMounted == tab = "session" /\ activeSession # None

Ceil2(n) == IF n % 2 = 0 THEN n \div 2 ELSE (n \div 2) + 1

winsNeeded(bestOf) == Ceil2(bestOf)

\* JavaScript's a > b on number | null: null converts to 0.
ToNumber(x) == IF x = None THEN 0 ELSE x[1]

JsGt(a, b) == ToNumber(a) > ToNumber(b)

\* Faulty variant: the null checks left out, so that 1 > null counts as a win.
teamAWinsUnchecked(sched) ==
    Len(SelectSeq(sched, LAMBDA m : JsGt(m.goalsA, m.goalsB)))

teamAWins(sched) ==
    Len(SelectSeq(sched, LAMBDA m : m.goalsA # None /\ m.goalsB # None /\ JsGt(m.goalsA, m.goalsB)))

\* Faulty variant: every played slot counts for team B.
teamBWinsPlayed(sched) ==
    Len(SelectSeq(sched, LAMBDA m : m.goalsA # None /\ m.goalsB # None))

teamBWins(sched) ==
    Len(SelectSeq(sched, LAMBDA m : m.goalsA # None /\ m.goalsB # None /\ JsGt(m.goalsB, m.goalsA)))

ScoreInputs == {None} \cup {Some(n) : n \in 0..MaxGoals}

\* Faulty variant: every entry crowns team A in the snapshot.
updateScoreCrowning(matchId, team, score) ==
    /\ DisplayMounted
    /\ pc = "idle"
    /\ \E i \in DOMAIN schedule :
          /\ schedule[i].id = matchId
          /\ score # (IF team = "A" THEN schedule[i].goalsA ELSE schedule[i].goalsB)
    /\ schedule' = [i \in DOMAIN schedule |->
                      IF schedule[i].id = matchId
                      THEN IF team = "A" THEN [schedule[i] EXCEPT !.goalsA = score]
                                         ELSE [schedule[i] EXCEPT !.goalsB = score]
                      ELSE schedule[i]]
    /\ pc' = "effect"
    /\ event' = [op |-> "updateScore", answer |-> "none"]
    /\ db' = [db EXCEPT !.kingSessions =
                 <<[id |-> 1, dateISO |-> clock, kings |-> activeSession[1].teams[1].players,
                    kingEnteredBy |-> "Session", bestOf |-> activeSession[1].bestOf,
                    mode |-> activeSession[1].mode]>>]
    /\ UNCHANGED <<tab, activeSession, form, clock, stats>>

updateScore(matchId, team, score) ==
    /\ DisplayMounted
    /\ pc = "idle"
    /\ \E i \in DOMAIN schedule :
          /\ schedule[i].id = matchId
          /\ score # (IF team = "A" THEN schedule[i].goalsA ELSE schedule[i].goalsB)
    /\ schedule' = [i \in DOMAIN schedule |->
                      IF schedule[i].id = matchId
                      THEN IF team = "A" THEN [schedule[i] EXCEPT !.goalsA = score]
                                         ELSE [schedule[i] EXCEPT !.goalsB = score]
                      ELSE schedule[i]]
    /\ pc' = "effect"
    /\ event' = [op |-> "updateScore", answer |-> "none"]
    /\ UNCHANGED <<db, tab, activeSession, form, clock, stats>>

\* Faulty variant: whichever team reached the threshold, the first team is crowned.
winnerTeamFirst(session, sched) ==
    IF \/ teamAWins(sched) >= winsNeeded(session.bestOf)
       \/ teamBWins(sched) >= winsNeeded(session.bestOf)
    THEN Some(session.teams[1])
    ELSE None

winnerTeam(session, sched) ==
    IF teamAWins(sched) >= winsNeeded(session.bestOf) THEN Some(session.teams[1])
    ELSE IF teamBWins(sched) >= winsNeeded(session.bestOf) THEN Some(session.teams[2])
    ELSE None

kingsOf(session, sched) ==
    IF winnerTeam(session, sched) # None THEN winnerTeam(session, sched)[1].players ELSE <<>>

MaxOf(S) == IF S = {} THEN 0 ELSE CHOOSE x \in S : \A y \in S : y <= x

MatchIds(matches) == {matches[i].id : i \in DOMAIN matches}

\* Faulty variant: drawn slots are dropped as well.
FilledSlotsDecisive(sched) ==
    SelectSeq(sched, LAMBDA m : m.goalsA # None /\ m.goalsB # None /\ m.goalsA # m.goalsB)

FilledSlots(sched) == SelectSeq(sched, LAMBDA m : m.goalsA # None /\ m.goalsB # None)

\* Faulty variant: each match is dated by its slot, and carries its own identifier as
\* the series identifier.
newMatchesPerSlot(session, sched, sessionId, now, prevMatches) ==
    [k \in DOMAIN FilledSlots(sched) |->
        [id |-> MaxOf(MatchIds(prevMatches)) + k, dateISO |-> now + k - 1, mode |-> session.mode,
         sessionId |-> Some(sessionId + k - 1),
         teamAPlayers |-> FilledSlots(sched)[k].teamA.players,
         teamBPlayers |-> FilledSlots(sched)[k].teamB.players,
         goalsA |-> FilledSlots(sched)[k].goalsA[1],
         goalsB |-> FilledSlots(sched)[k].goalsB[1],
         teamAName |-> FilledSlots(sched)[k].teamA.name,
         teamBName |-> FilledSlots(sched)[k].teamB.name,
         enteredBy |-> "Session"]]

newMatches(session, sched, sessionId, now, prevMatches) ==
    [k \in DOMAIN FilledSlots(sched) |->
        [id |-> MaxOf(MatchIds(prevMatches)) + k, dateISO |-> now, mode |-> session.mode,
         sessionId |-> Some(sessionId),
         teamAPlayers |-> FilledSlots(sched)[k].teamA.players,
         teamBPlayers |-> FilledSlots(sched)[k].teamB.players,
         goalsA |-> FilledSlots(sched)[k].goalsA[1],
         goalsB |-> FilledSlots(sched)[k].goalsB[1],
         teamAName |-> FilledSlots(sched)[k].teamA.name,
         teamBName |-> FilledSlots(sched)[k].teamB.name,
         enteredBy |-> "Session"]]

newKingSession(session, sched, sessionId, now) ==
    [id |-> sessionId, dateISO |-> now, kings |-> kingsOf(session, sched),
     kingEnteredBy |-> "Session", bestOf |-> session.bestOf, mode |-> session.mode]

SessionIds(sessions) == {sessions[i].id : i \in DOMAIN sessions}

\* Faulty variant: the session record is stored, the matches are forgotten.
FinishedDbSessionOnly(prev, session, sched, sessionId, now) ==
    [prev EXCEPT
        !.kingSessions = Append(@, newKingSession(session, sched, sessionId, now))]

\* The single setDb of finishSession.
FinishedDb(prev, session, sched, sessionId, now) ==
    [prev EXCEPT
        !.matches = @ \o newMatches(session, sched, sessionId, now, @),
        !.kingSessions = Append(@, newKingSession(session, sched, sessionId, now))]

NeedsConfirm(session, sched) ==
    /\ teamAWins(sched) < winsNeeded(session.bestOf)
    /\ teamBWins(sched) < winsNeeded(session.bestOf)

\* Faulty variant: the answer to the confirmation is ignored.
ProceedsAlways(isConfirmed, session, sched, answer) == TRUE

Proceeds(isConfirmed, session, sched, answer) ==
    isConfirmed \/ ~NeedsConfirm(session, sched) \/ answer

\* Faulty variant: the series stays active after it was saved.
finishSessionStaysActive(isConfirmed, answer, op) ==
    LET session == activeSession[1]
        asked == ~isConfirmed /\ NeedsConfirm(session, schedule)
    IN  /\ event' = [op |-> op,
                     answer |-> IF ~asked THEN "none"
                                ELSE IF answer THEN "confirmed" ELSE "declined"]
        /\ IF Proceeds(isConfirmed, session, schedule, answer)
           THEN /\ db' = FinishedDb(db, session, schedule, uid(SessionIds(db.kingSessions)), clock)
                /\ clock' = clock + 1
                /\ UNCHANGED <<activeSession, schedule, form>>
           ELSE UNCHANGED <<db, clock, activeSession, schedule, form>>

finishSession(isConfirmed, answer, op) ==
    LET session == activeSession[1]
        asked == ~isConfirmed /\ NeedsConfirm(session, schedule)
    IN  /\ event' = [op |-> op,
                     answer |-> IF ~asked THEN "none"
                                ELSE IF answer THEN "confirmed" ELSE "declined"]
        /\ IF Proceeds(isConfirmed, session, schedule, answer)
           THEN /\ db' = FinishedDb(db, session, schedule, uid(SessionIds(db.kingSessions)), clock)
                /\ clock' = clock + 1
                /\ activeSession' = None
                /\ schedule' = <<>>
                /\ form' = InitForm
           ELSE UNCHANGED <<db, clock, activeSession, schedule, form>>

\* Faulty variant: the effect looks at team A only.
autoFinishEffectOnlyA ==
    /\ pc = "effect"
    /\ DisplayMounted
    /\ pc' = "idle"
    /\ UNCHANGED <<tab, stats>>
    /\ IF teamAWins(schedule) >= winsNeeded(activeSession[1].bestOf)
       THEN finishSession(TRUE, TRUE, "autoFinish")
       ELSE /\ event' = [op |-> "effect", answer |-> "none"]
            /\ UNCHANGED <<db, clock, activeSession, schedule, form>>

\* useEffect on [scores, winsNeeded]: runs after mount and after every score change.
autoFinishEffect ==
    /\ pc = "effect"
    /\ DisplayMounted
    /\ pc' = "idle"
    /\ UNCHANGED <<tab, stats>>
    /\ IF \/ teamAWins(schedule) >= winsNeeded(activeSession[1].bestOf)
          \/ teamBWins(schedule) >= winsNeeded(activeSession[1].bestOf)
       THEN finishSession(TRUE, TRUE, "autoFinish")
       ELSE /\ event' = [op |-> "effect", answer |-> "none"]
            /\ UNCHANGED <<db, clock, activeSession, schedule, form>>

manualFinish(answer) ==
    /\ DisplayMounted
    /\ pc = "idle"
    /\ finishSession(FALSE, answer, "finishSession")
    /\ UNCHANGED <<tab, pc, stats>>

\* Faulty variant: the series is discarded whatever the answer.
cancelSessionUnasked(answer) ==
    /\ DisplayMounted
    /\ pc = "idle"
    /\ event' = [op |-> "cancel", answer |-> IF answer THEN "confirmed" ELSE "declined"]
    /\ activeSession' = None
    /\ schedule' = <<>>
    /\ form' = InitForm
    /\ UNCHANGED <<db, tab, pc, clock, stats>>

cancelSession(answer) ==
    /\ DisplayMounted
    /\ pc = "idle"
    /\ event' = [op |-> "cancel", answer |-> IF answer THEN "confirmed" ELSE "declined"]
    /\ IF answer
       THEN /\ activeSession' = None
            /\ schedule' = <<>>
            /\ form' = InitForm
       ELSE UNCHANGED <<activeSession, schedule, form>>
    /\ UNCHANGED <<db, tab, pc, clock, stats>>

(***************************************************************************)
(* Standings                                                               *)
(***************************************************************************)
PlayerIds(players) == {players[i].id : i \in DOMAIN players}

ZeroStats(p) ==
    [id |-> p.id, name |-> p.name, played |-> 0, wins |-> 0, draws |-> 0, losses |-> 0,
     goalsFor |-> 0, goalsAgainst |-> 0]

IndexOfId(players, id) == CHOOSE i \in DOMAIN players : players[i].id = id

\* Faulty variant: an id with no record ends the loop over the side.
RECURSIVE CreditSideStop(_, _, _, _, _, _)
CreditSideStop(map, pids, goalsFor, goalsAgainst, won, lost) ==
    IF pids = <<>> \/ Head(pids) \notin DOMAIN map THEN map
    ELSE LET pid == Head(pids)
             s == map[pid]
             credited ==
                 [s EXCEPT !.played = @ + 1,
                           !.goalsFor = @ + goalsFor,
                           !.goalsAgainst = @ + goalsAgainst,
                           !.wins = IF won THEN @ + 1 ELSE @,
                           !.losses = IF ~won /\ lost THEN @ + 1 ELSE @,
                           !.draws = IF ~won /\ ~lost THEN @ + 1 ELSE @]
         IN  CreditSideStop([map EXCEPT ![pid] = credited],
                            Tail(pids), goalsFor, goalsAgainst, won, lost)

\* One side of one match: every pid of the side, in order; an id with no record is skipped.
RECURSIVE CreditSide(_, _, _, _, _, _)
CreditSide(map, pids, goalsFor, goalsAgainst, won, lost) ==
    IF pids = <<>> THEN map
    ELSE LET pid == Head(pids)
             s == map[pid]
             credited ==
                 [s EXCEPT !.played = @ + 1,
                           !.goalsFor = @ + goalsFor,
                           !.goalsAgainst = @ + goalsAgainst,
                           !.wins = IF won THEN @ + 1 ELSE @,
                           !.losses = IF ~won /\ lost THEN @ + 1 ELSE @,
                           !.draws = IF ~won /\ ~lost THEN @ + 1 ELSE @]
         IN  CreditSide(IF pid \in DOMAIN map THEN [map EXCEPT ![pid] = credited] ELSE map,
                        Tail(pids), goalsFor, goalsAgainst, won, lost)

\* Faulty variant: side B is credited with side A's outcome.
CreditMatchSameOutcome(map, m) ==
    LET aWon == m.goalsA > m.goalsB
        bWon == m.goalsB > m.goalsA
    IN  CreditSide(CreditSide(map, m.teamAPlayers, m.goalsA, m.goalsB, aWon, bWon),
                   m.teamBPlayers, m.goalsB, m.goalsA, aWon, bWon)

CreditMatch(map, m) ==
    LET aWon == m.goalsA > m.goalsB
        bWon == m.goalsB > m.goalsA
    IN  CreditSide(CreditSide(map, m.teamAPlayers, m.goalsA, m.goalsB, aWon, bWon),
                   m.teamBPlayers, m.goalsB, m.goalsA, bWon, aWon)

RECURSIVE CreditMatches(_, _)
CreditMatches(map, matches) ==
    IF matches = <<>> THEN map
    ELSE CreditMatches(CreditMatch(map, Head(matches)), Tail(matches))

\* Faulty variant: two points for a win.
PointsTwoForWin(s) == s.wins * 2 + s.draws

Points(s) == s.wins * 3 + s.draws

\* Faulty variant: the goal difference is taken the wrong way round.
computeStandingsDiffFlipped(players, matches) ==
    LET init == [id \in PlayerIds(players) |-> ZeroStats(players[IndexOfId(players, id)])]
        map == CreditMatches(init, matches)
    IN  [i \in DOMAIN players |->
            [id |-> map[players[i].id].id, name |-> map[players[i].id].name,
             played |-> map[players[i].id].played, wins |-> map[players[i].id].wins,
             draws |-> map[players[i].id].draws, losses |-> map[players[i].id].losses,
             goalsFor |-> map[players[i].id].goalsFor,
             goalsAgainst |-> map[players[i].id].goalsAgainst,
             points |-> Points(map[players[i].id]),
             goalDiff |-> map[players[i].id].goalsAgainst - map[players[i].id].goalsFor]]

computeStandings(players, matches) ==
    LET init == [id \in PlayerIds(players) |-> ZeroStats(players[IndexOfId(players, id)])]
        map == CreditMatches(init, matches)
    IN  [i \in DOMAIN players |->
            [id |-> map[players[i].id].id, name |-> map[players[i].id].name,
             played |-> map[players[i].id].played, wins |-> map[players[i].id].wins,
             draws |-> map[players[i].id].draws, losses |-> map[players[i].id].losses,
             goalsFor |-> map[players[i].id].goalsFor,
             goalsAgainst |-> map[players[i].id].goalsAgainst,
             points |-> Points(map[players[i].id]),
             goalDiff |-> map[players[i].id].goalsFor - map[players[i].id].goalsAgainst]]

\* Faulty variant: the name tie-break runs the other way.
compareStatsNameDesc(a, b) ==
    IF b.points - a.points # 0 THEN b.points - a.points
    ELSE IF b.goalDiff - a.goalDiff # 0 THEN b.goalDiff - a.goalDiff
    ELSE IF b.goalsFor - a.goalsFor # 0 THEN b.goalsFor - a.goalsFor
    ELSE IF b.name < a.name THEN -1 ELSE IF b.name > a.name THEN 1 ELSE 0

\* The comparator of stats.sort: a || chain yields its first non-zero term;
\* localeCompare on names is the comparison of their ranks.
compareStats(a, b) ==
    IF b.points - a.points # 0 THEN b.points - a.points
    ELSE IF b.goalDiff - a.goalDiff # 0 THEN b.goalDiff - a.goalDiff
    ELSE IF b.goalsFor - a.goalsFor # 0 THEN b.goalsFor - a.goalsFor
    ELSE IF a.name < b.name THEN -1 ELSE IF a.name > b.name THEN 1 ELSE 0

\* Faulty variant: the rows are rendered as computeStandings returned them.
TableStatsUnsorted(rows) == rows

\* stats.sort(...): a stable sort, each row placed behind the rows that do not
\* compare greater.
RECURSIVE TableStats(_)
TableStats(rows) ==
    IF Len(rows) <= 1 THEN rows
    ELSE LET rest == TableStats(SubSeq(rows, 1, Len(rows) - 1))
             x == rows[Len(rows)]
             k == Cardinality({i \in DOMAIN rest : compareStats(rest[i], x) <= 0})
         IN  SubSeq(rest, 1, k) \o <<x>> \o SubSeq(rest, k + 1, Len(rest))

(***************************************************************************)
(* Tabs: a component's local state lives only while it is rendered.        *)
(***************************************************************************)
setTab(t) ==
    /\ pc = "idle"
    /\ t # tab
    /\ tab' = t
    /\ form' = InitForm
    /\ IF t = "session" /\ activeSession # None
       THEN schedule' = activeSession[1].schedule /\ pc' = "effect"
       ELSE schedule' = <<>> /\ pc' = "idle"
    /\ stats' = IF t = "table" THEN TableStats(computeStandings(db.players, db.matches)) ELSE <<>>
    /\ event' = [op |-> "setTab", answer |-> "none"]
    /\ UNCHANGED <<db, activeSession, clock>>

(***************************************************************************)
(* History                                                                 *)
(***************************************************************************)
deleteMatch(id, answer) ==
    /\ tab = "history"
    /\ id \in MatchIds(db.matches)
    /\ event' = [op |-> "deleteMatch", answer |-> IF answer THEN "confirmed" ELSE "declined"]
    /\ db' = IF answer
             THEN [db EXCEPT !.matches = SelectSeq(@, LAMBDA m : m.id # id)]
             ELSE db
    /\ UNCHANGED <<tab, activeSession, form, schedule, pc, clock, stats>>

removeKingTitle(id, answer) ==
    /\ tab = "history"
    /\ \E i \in DOMAIN db.kingSessions :
          db.kingSessions[i].id = id /\ Len(db.kingSessions[i].kings) > 0
    /\ event' = [op |-> "removeKingTitle", answer |-> IF answer THEN "confirmed" ELSE "declined"]
    /\ db' = IF answer
             THEN [db EXCEPT !.kingSessions =
                      [i \in DOMAIN @ |-> IF @[i].id = id THEN [@[i] EXCEPT !.kings = <<>>] ELSE @[i]]]
             ELSE db
    /\ UNCHANGED <<tab, activeSession, form, schedule, pc, clock, stats>>

(***************************************************************************)
(* Settings                                                                *)
(***************************************************************************)
\* Faulty variant: the player's matches go with the player.
deletePlayerCascade(id, answer) ==
    /\ tab = "settings"
    /\ id \in PlayerIds(db.players)
    /\ event' = [op |-> "deletePlayer", answer |-> IF answer THEN "confirmed" ELSE "declined"]
    /\ db' = IF answer
             THEN [db EXCEPT !.players = SelectSeq(@, LAMBDA p : p.id # id),
                             !.matches = SelectSeq(@, LAMBDA m :
                                 ~Includes(m.teamAPlayers \o m.teamBPlayers, id))]
             ELSE db
    /\ UNCHANGED <<tab, activeSession, form, schedule, pc, clock, stats>>

deletePlayer(id, answer) ==
    /\ tab = "settings"
    /\ id \in PlayerIds(db.players)
    /\ event' = [op |-> "deletePlayer", answer |-> IF answer THEN "confirmed" ELSE "declined"]
    /\ db' = IF answer
             THEN [db EXCEPT !.players = SelectSeq(@, LAMBDA p : p.id # id)]
             ELSE db
    /\ UNCHANGED <<tab, activeSession, form, schedule, pc, clock, stats>>

(***************************************************************************)
(* useKingInfo: the streaks, recomputed from the snapshot on every render. *)
(* dateISO is the instant itself: new Date(iso).getTime() gives back the   *)
(* millisecond that toISOString() wrote.                                   *)
(***************************************************************************)
\* Faulty variant: the sessions are walked in stored order.
sortedSessionsStored(sessions) == sessions

\* [...db.kingSessions].sort(by time): a stable sort, ascending.
RECURSIVE sortedSessions(_)
sortedSessions(sessions) ==
    IF Len(sessions) <= 1 THEN sessions
    ELSE LET rest == sortedSessions(SubSeq(sessions, 1, Len(sessions) - 1))
             x == sessions[Len(sessions)]
             k == Cardinality({i \in DOMAIN rest : rest[i].dateISO - x.dateISO <= 0})
         IN  SubSeq(rest, 1, k) \o <<x>> \o SubSeq(rest, k + 1, Len(rest))

ZeroStreaks(players) ==
    [longestStreaks |-> [id \in PlayerIds(players) |-> 0],
     currentStreaks |-> [id \in PlayerIds(players) |-> 0]]

\* Faulty variant: a player missing from the winners keeps the running counter.
walkSessionNoReset(streaks, session) ==
    IF Len(session.kings) = 0 THEN streaks
    ELSE [longestStreaks |->
              [id \in DOMAIN streaks.longestStreaks |->
                  IF Includes(session.kings, id) THEN streaks.longestStreaks[id]
                  ELSE IF streaks.currentStreaks[id] > streaks.longestStreaks[id]
                       THEN streaks.currentStreaks[id]
                       ELSE streaks.longestStreaks[id]],
          currentStreaks |->
              [id \in DOMAIN streaks.currentStreaks |->
                  IF Includes(session.kings, id) THEN streaks.currentStreaks[id] + 1
                  ELSE streaks.currentStreaks[id]]]

\* Faulty variant: a session without kings is walked like any other.
walkSessionNoSkip(streaks, session) ==
    [longestStreaks |->
         [id \in DOMAIN streaks.longestStreaks |->
             IF Includes(session.kings, id) THEN streaks.longestStreaks[id]
             ELSE IF streaks.currentStreaks[id] > streaks.longestStreaks[id]
                  THEN streaks.currentStreaks[id]
                  ELSE streaks.longestStreaks[id]],
     currentStreaks |->
         [id \in DOMAIN streaks.currentStreaks |->
             IF Includes(session.kings, id) THEN streaks.currentStreaks[id] + 1 ELSE 0]]

\* The body of the loop over sortedSessions; the records are keyed by the roster's ids.
walkSession(streaks, session) ==
    IF Len(session.kings) = 0 THEN streaks
    ELSE [longestStreaks |->
              [id \in DOMAIN streaks.longestStreaks |->
                  IF Includes(session.kings, id) THEN streaks.longestStreaks[id]
                  ELSE IF streaks.currentStreaks[id] > streaks.longestStreaks[id]
                       THEN streaks.currentStreaks[id]
                       ELSE streaks.longestStreaks[id]],
          currentStreaks |->
              [id \in DOMAIN streaks.currentStreaks |->
                  IF Includes(session.kings, id) THEN streaks.currentStreaks[id] + 1 ELSE 0]]

RECURSIVE walkSessions(_, _)
walkSessions(streaks, sessions) ==
    IF sessions = <<>> THEN streaks
    ELSE walkSessions(walkSession(streaks, Head(sessions)), Tail(sessions))

\* Faulty variant: the flush after the loop is left out.
finalFlushNone(streaks) == streaks

\* The loop after the walk: the running streak counts toward the longest.
finalFlush(streaks) ==
    [streaks EXCEPT !.longestStreaks =
        [id \in DOMAIN @ |-> IF streaks.currentStreaks[id] > @[id]
                             THEN streaks.currentStreaks[id] ELSE @[id]]]

\* Faulty variant: whoever held a title at any time is listed as a current king.
useKingInfoEverKing(d) ==
    LET streaks == finalFlush(walkSessions(ZeroStreaks(d.players), sortedSessions(d.kingSessions)))
        onStreak == SelectSeq(d.players, LAMBDA p : streaks.longestStreaks[p.id] > 0)
    IN  [currentKings |-> [i \in DOMAIN onStreak |->
                              [id |-> onStreak[i].id, name |-> onStreak[i].name,
                               streak |-> streaks.longestStreaks[onStreak[i].id]]],
         longestStreaks |-> streaks.longestStreaks]

useKingInfo(d) ==
    LET streaks == finalFlush(walkSessions(ZeroStreaks(d.players), sortedSessions(d.kingSessions)))
        onStreak == SelectSeq(d.players, LAMBDA p : streaks.currentStreaks[p.id] > 0)
    IN  [currentKings |-> [i \in DOMAIN onStreak |->
                              [id |-> onStreak[i].id, name |-> onStreak[i].name,
                               streak |-> streaks.currentStreaks[onStreak[i].id]]],
         longestStreaks |-> streaks.longestStreaks]

\* App: const kingInfo = useKingInfo(db).
kingInfo == useKingInfo(db)

Init ==
    /\ db = [players |-> DefaultPlayers, matches |-> <<>>, kingSessions |-> <<>>]
    /\ tab = "session"
    /\ activeSession = None
    /\ form = InitForm
    /\ schedule = <<>>
    /\ pc = "idle"
    /\ event = [op |-> "init", answer |-> "none"]
    /\ clock = 1
    /\ stats = <<>>

Next ==
    \/ \E m \in Modes : SetMode(m)
    \/ \E b \in BestOfOptions : SetBestOf(b)
    \/ \E id \in 1..NumPlayers : toggleTeamPlayer(id)
    \/ addTeam
    \/ \E t \in 1..2 : removeTeam(t)
    \/ handleStart
    \/ \E i \in 1..MaxBestOf, team \in {"A", "B"}, v \in ScoreInputs : updateScore(i, team, v)
    \/ autoFinishEffect
    \/ \E answer \in BOOLEAN : manualFinish(answer)
    \/ \E answer \in BOOLEAN : cancelSession(answer)
    \/ \E t \in Tabs : setTab(t)
    \/ \E id \in 1..(MaxSessions * MaxBestOf), answer \in BOOLEAN : deleteMatch(id, answer)
    \/ \E id \in 1..MaxSessions, answer \in BOOLEAN : removeKingTitle(id, answer)

Spec == Init /\ [][Next]_vars

(***************************************************************************)
(* One series: the state right after handleStart, then the operations of   *)
(* ActiveSessionDisplay and the tabs.                                      *)
(***************************************************************************)
SeriesPlayers == [i \in 1..4 |-> [id |-> i, name |-> PlayerName(i)]]

SeriesTeams(mode) ==
    IF mode = "1v1"
    THEN << [id |-> 1, name |-> <<PlayerName(1)>>, players |-> <<1>>],
            [id |-> 2, name |-> <<PlayerName(2)>>, players |-> <<2>>] >>
    ELSE << [id |-> 1, name |-> <<PlayerName(1), PlayerName(2)>>, players |-> <<1, 2>>],
            [id |-> 2, name |-> <<PlayerName(3), PlayerName(4)>>, players |-> <<3, 4>>] >>

SeriesStarts ==
    {<<"1v1", b>> : b \in {x \in BestOfOptions : x <= MaxSeriesBestOf}}
        \cup {<<"2v2", b>> : b \in {x \in BestOfOptions : x <= MaxBestOf}}

InitSeries ==
    \E <<mode, bestOf>> \in SeriesStarts :
        /\ db = [players |-> SeriesPlayers, matches |-> <<>>, kingSessions |-> <<>>]
        /\ tab = "session"
        /\ activeSession = Some(NewActiveSession(SeriesTeams(mode), bestOf, mode))
        /\ form = InitForm
        /\ schedule = NewSchedule(SeriesTeams(mode), bestOf)
        /\ pc = "effect"
        /\ event = [op |-> "handleStart", answer |-> "none"]
        /\ clock = 1
        /\ stats = <<>>

NextSeries ==
    \/ \E i \in 1..MaxSeriesBestOf, team \in {"A", "B"}, v \in ScoreInputs : updateScore(i, team, v)
    \/ autoFinishEffect
    \/ \E answer \in BOOLEAN : manualFinish(answer)
    \/ \E answer \in BOOLEAN : cancelSession(answer)
    \/ \E t \in Tabs : setTab(t)

SpecSeries == InitSeries /\ [][NextSeries]_vars

(***************************************************************************)
(* Standings of a stored snapshot: useLocalState loads players and matches *)
(* (players may have been deleted since), the table tab aggregates them.   *)
(***************************************************************************)
StoredTeamPairs ==
    { << <<1>>, <<2>> >>, << <<3>>, <<1>> >>, << <<1, 2>>, <<3, 4>> >>, << <<3, 4>>, <<1, 2>> >> }

SeqRange(s) == {s[i] : i \in DOMAIN s}

StoredMatches ==
    {[id |-> 0, dateISO |-> 0, mode |-> IF Len(tp[1]) = 1 THEN "1v1" ELSE "2v2",
      sessionId |-> None, teamAPlayers |-> tp[1], teamBPlayers |-> tp[2],
      goalsA |-> ga, goalsB |-> gb,
      teamAName |-> [i \in DOMAIN tp[1] |-> PlayerName(tp[1][i])],
      teamBName |-> [i \in DOMAIN tp[2] |-> PlayerName(tp[2][i])],
      enteredBy |-> "Session"] :
        tp \in StoredTeamPairs, ga \in 0..MaxGoals, gb \in 0..MaxGoals}

StoredMatchLists ==
    {[i \in DOMAIN f |-> [f[i] EXCEPT !.id = i, !.dateISO = i]] :
        f \in UNION {[1..n -> StoredMatches] : n \in 0..MaxMatches}}

\* The roster: the four players, or three of them after a deletePlayer.
StoredRosters ==
    {SeriesPlayers} \cup {SelectSeq(SeriesPlayers, LAMBDA p : p.id # gone) : gone \in 1..4}

InitStored ==
    /\ db \in [players : StoredRosters, matches : StoredMatchLists, kingSessions : {<<>>}]
    /\ tab = "session"
    /\ activeSession = None
    /\ form = InitForm
    /\ schedule = <<>>
    /\ pc = "idle"
    /\ event = [op |-> "init", answer |-> "none"]
    /\ clock = 1
    /\ stats = <<>>

NextStandings == \E t \in Tabs : setTab(t)

SpecStandings == InitStored /\ [][NextStandings]_vars

(***************************************************************************)
(* Streaks of a stored snapshot: useLocalState loads the players and the   *)
(* finished sessions, in whatever order they were stored; History revokes  *)
(* titles and Settings deletes players.                                    *)
(***************************************************************************)
StoredKings == {<<>>, <<1>>, <<2>>, <<1, 2>>, <<3, 4>>}

Orders(n) == {f \in [1..n -> 1..n] : \A i, j \in 1..n : f[i] = f[j] => i = j}

StoredSessionLists ==
    UNION {{[i \in 1..n |-> [id |-> i, dateISO |-> when[i], kings |-> kings[i],
                             kingEnteredBy |-> "Session", bestOf |-> 3,
                             mode |-> IF Len(kings[i]) = 2 THEN "2v2" ELSE "1v1"]] :
                kings \in [1..n -> StoredKings], when \in Orders(n)} :
           n \in 0..MaxStored}

\* The stored matches: one series of two 2v2 matches between all four players.
StoredSeriesMatches ==
    [i \in 1..2 |->
        [id |-> i, dateISO |-> 0, mode |-> "2v2", sessionId |-> Some(1),
         teamAPlayers |-> <<1, 2>>, teamBPlayers |-> <<3, 4>>,
         goalsA |-> 1, goalsB |-> 0,
         teamAName |-> <<PlayerName(1), PlayerName(2)>>,
         teamBName |-> <<PlayerName(3), PlayerName(4)>>,
         enteredBy |-> "Session"]]

InitKings ==
    /\ db \in [players : {SeriesPlayers}, matches : {StoredSeriesMatches},
                kingSessions : StoredSessionLists]
    /\ tab = "session"
    /\ activeSession = None
    /\ form = InitForm
    /\ schedule = <<>>
    /\ pc = "idle"
    /\ event = [op |-> "init", answer |-> "none"]
    /\ clock = MaxStored + 1
    /\ stats = <<>>

NextKings ==
    \/ \E t \in Tabs : setTab(t)
    \/ \E id \in 1..MaxStored, answer \in BOOLEAN : removeKingTitle(id, answer)
    \/ \E id \in 1..4, answer \in BOOLEAN : deletePlayer(id, answer)

SpecKings == InitKings /\ [][NextKings]_vars

(***************************************************************************)
(* App.tsx: the tracker with the new-match form, the quick king counter    *)
(* and the export and import of the snapshot {theme, players, matches,     *)
(* sessions}.  A JavaScript number is a record: a finite number, NaN, or   *)
(* the null that JSON puts in NaN's place.  form holds the local state of  *)
(* NewMatch and of QuickKingCounter; the free-text fields of the forms are *)
(* left empty, so that a saved record carries their defaults.              *)
(***************************************************************************)
AppTabs == {"table", "session", "new", "history", "settings"}

ThemeKeys == {"FCB", "BVB", "FALCO"}

JsNumber(n) == [type |-> "number", n |-> n]

JsNaN == [type |-> "NaN", n |-> 0]

JsNull == [type |-> "null", n |-> 0]

AppPlayers == [i \in 1..4 |-> [id |-> i, name |-> i]]

InitAppForm ==
    [mode |-> "1v1", teamAPlayers |-> <<>>, teamBPlayers |-> <<>>,
     goalsA |-> JsNumber(0), goalsB |-> JsNumber(0), selected |-> <<>>, bestOf |-> 3]

\* What a number input hands to onChange: nothing, a run of digits, or a valid
\* floating-point number that starts with its full stop (".5").
InputTexts ==
    {[shape |-> "empty", n |-> 0], [shape |-> "fraction", n |-> 0]}
        \cup {[shape |-> "digits", n |-> k] : k \in 0..MaxGoals}

\* parseInt(e.target.value || "0", 10): no leading digit gives NaN.
parseInt(text) ==
    IF text.shape = "empty" THEN JsNumber(0)
    ELSE IF text.shape = "digits" THEN JsNumber(text.n)
    ELSE JsNaN

NewMatchOpen == tab = "new" /\ Len(db.matches) < MaxSaved

\* NewMatch setMode, with the effect on [mode] that empties both teams.
NewMatchSetMode(m) ==
    /\ NewMatchOpen
    /\ m # form.mode
    /\ form' = [form EXCEPT !.mode = m, !.teamAPlayers = <<>>, !.teamBPlayers = <<>>]
    /\ event' = [op |-> "setMode", answer |-> "none"]
    /\ UNCHANGED <<db, tab, activeSession, schedule, pc, clock, stats>>

TeamPickerToggled(value, id, max) ==
    IF Includes(value, id) THEN SelectSeq(value, LAMBDA x : x # id)
    ELSE IF Len(value) < max THEN Append(value, id)
    ELSE value

TeamPickerToggle(team, id) ==
    /\ NewMatchOpen
    /\ id \in PlayerIds(db.players)
    /\ form' = IF team = "A"
               THEN [form EXCEPT !.teamAPlayers = TeamPickerToggled(@, id, playersPerTeam(form.mode))]
               ELSE [form EXCEPT !.teamBPlayers = TeamPickerToggled(@, id, playersPerTeam(form.mode))]
    /\ form' # form
    /\ event' = [op |-> "toggle", answer |-> "none"]
    /\ UNCHANGED <<db, tab, activeSession, schedule, pc, clock, stats>>

NumberInput(team, text) ==
    /\ NewMatchOpen
    /\ form' = IF team = "A" THEN [form EXCEPT !.goalsA = parseInt(text)]
                              ELSE [form EXCEPT !.goalsB = parseInt(text)]
    /\ form' # form
    /\ event' = [op |-> "setGoals", answer |-> "none"]
    /\ UNCHANGED <<db, tab, activeSession, schedule, pc, clock, stats>>

canSave ==
    /\ ~(form.mode = "1v1" /\ (Len(form.teamAPlayers) # 1 \/ Len(form.teamBPlayers) # 1))
    /\ ~(form.mode = "2v2" /\ (Len(form.teamAPlayers) # 2 \/ Len(form.teamBPlayers) # 2))
    /\ Cardinality(SeqRange(form.teamAPlayers \o form.teamBPlayers))
          = Len(form.teamAPlayers) + Len(form.teamBPlayers)

addMatch ==
    /\ NewMatchOpen
    /\ canSave
    /\ db' = [db EXCEPT !.matches =
                 << [id |-> uid(MatchIds(@)), dateISO |-> clock, mode |-> form.mode,
                     teamAName |-> "Team A", teamBName |-> "Team B",
                     teamAPlayers |-> form.teamAPlayers, teamBPlayers |-> form.teamBPlayers,
                     goalsA |-> form.goalsA, goalsB |-> form.goalsB,
                     enteredBy |-> "Unbekannt"] >> \o @]
    /\ form' = [form EXCEPT !.teamAPlayers = <<>>, !.teamBPlayers = <<>>,
                            !.goalsA = JsNumber(0), !.goalsB = JsNumber(0)]
    /\ event' = [op |-> "addMatch", answer |-> "none"]
    /\ UNCHANGED <<tab, activeSession, schedule, pc, clock, stats>>

QuickOpen == tab = "session" /\ Len(db.sessions) < MaxSessions

QuickKingToggle(id) ==
    /\ QuickOpen
    /\ id \in PlayerIds(db.players)
    /\ form' = [form EXCEPT !.selected = TeamPickerToggled(@, id, 2)]
    /\ form' # form
    /\ event' = [op |-> "toggleKing", answer |-> "none"]
    /\ UNCHANGED <<db, tab, activeSession, schedule, pc, clock, stats>>

addQuickSession ==
    /\ QuickOpen
    /\ Len(form.selected) # 0
    /\ db' = [db EXCEPT !.sessions =
                 << [id |-> uid(SessionIds(@)), title |-> Len(@) + 1, startedAtISO |-> clock,
                     kings |-> form.selected, kingEnteredBy |-> "Unbekannt",
                     bestOf |-> form.bestOf] >> \o @]
    /\ clock' = clock + 1
    /\ form' = [form EXCEPT !.selected = <<>>]
    /\ event' = [op |-> "addQuickSession", answer |-> "none"]
    /\ UNCHANGED <<tab, activeSession, schedule, pc, stats>>

\* Faulty variant: the revoked session is dropped from the list.
clearKingsDropping(id) ==
    /\ tab = "session"
    /\ \E i \in DOMAIN db.sessions : db.sessions[i].id = id /\ Len(db.sessions[i].kings) > 0
    /\ db' = [db EXCEPT !.sessions = SelectSeq(@, LAMBDA x : x.id # id)]
    /\ event' = [op |-> "clearKings", answer |-> "none"]
    /\ UNCHANGED <<tab, activeSession, form, schedule, pc, clock, stats>>

\* SessionList: the button is shown for a session that has kings; nothing is asked.
clearKings(id) ==
    /\ tab = "session"
    /\ \E i \in DOMAIN db.sessions : db.sessions[i].id = id /\ Len(db.sessions[i].kings) > 0
    /\ db' = [db EXCEPT !.sessions =
                 [i \in DOMAIN @ |-> IF @[i].id = id THEN [@[i] EXCEPT !.kings = <<>>] ELSE @[i]]]
    /\ event' = [op |-> "clearKings", answer |-> "none"]
    /\ UNCHANGED <<tab, activeSession, form, schedule, pc, clock, stats>>

clearAll(answer) ==
    /\ tab = "settings"
    /\ event' = [op |-> "clearAll", answer |-> IF answer THEN "confirmed" ELSE "declined"]
    /\ db' = IF answer
             THEN [theme |-> db.theme, players |-> <<>>, matches |-> <<>>, sessions |-> <<>>]
             ELSE db
    /\ UNCHANGED <<tab, activeSession, form, schedule, pc, clock, stats>>

setTheme(t) ==
    /\ tab = "settings"
    /\ t # db.theme
    /\ db' = [db EXCEPT !.theme = t]
    /\ event' = [op |-> "setTheme", answer |-> "none"]
    /\ UNCHANGED <<tab, activeSession, form, schedule, pc, clock, stats>>

\* JSON.stringify of a number: its digits, and null for NaN (and for null).
JsonNumber(x) ==
    IF x.type = "number" THEN [token |-> "digits", n |-> x.n] ELSE [token |-> "null", n |-> 0]

\* The text of a snapshot: strings, arrays and objects are written as they are.
JSONstringify(d) ==
    [wellFormed |-> TRUE,
     value |-> [d EXCEPT !.matches =
                   [i \in DOMAIN @ |-> [@[i] EXCEPT !.goalsA = JsonNumber(@),
                                                    !.goalsB = JsonNumber(@)]]]]

JsonValue(t) == IF t.token = "digits" THEN JsNumber(t.n) ELSE JsNull

\* JSON.parse: throws on text that is not well formed.
JSONparse(text) ==
    IF ~text.wellFormed THEN [threw |-> TRUE, data |-> text.value]
    ELSE [threw |-> FALSE,
          data |-> [text.value EXCEPT !.matches =
                       [i \in DOMAIN @ |-> [@[i] EXCEPT !.goalsA = JsonValue(@),
                                                        !.goalsB = JsonValue(@)]]]]

\* ExportButton.download writes JSON.stringify(db) to a file; the snapshot stays.
download ==
    /\ tab = "settings"
    /\ event' = [op |-> "download", answer |-> "none"]
    /\ UNCHANGED <<db, tab, activeSession, form, schedule, pc, clock, stats>>

Truthy(str) == str # ""

\* { ...data, theme: keepTheme || data.theme || "BVB" }
ImportedDb(data, keepTheme) ==
    [data EXCEPT !.theme = IF Truthy(keepTheme) THEN keepTheme
                           ELSE IF Truthy(data.theme) THEN data.theme ELSE "BVB"]

\* Faulty variant: what could be read of a broken file is stored.
onPickUnguarded(file) ==
    /\ tab = "settings"
    /\ event' = [op |-> "onPick", answer |-> IF JSONparse(file).threw THEN "invalid" ELSE "parsed",
                 file |-> file]
    /\ db' = ImportedDb(JSONparse(file).data, db.theme)
    /\ UNCHANGED <<tab, activeSession, form, schedule, pc, clock, stats>>

\* ImportButton.onPick, with the reader's onload.
onPick(file) ==
    /\ tab = "settings"
    /\ event' = [op |-> "onPick", answer |-> IF JSONparse(file).threw THEN "invalid" ELSE "parsed",
                 file |-> file]
    /\ db' = IF JSONparse(file).threw THEN db ELSE ImportedDb(JSONparse(file).data, db.theme)
    /\ UNCHANGED <<tab, activeSession, form, schedule, pc, clock, stats>>

AppSetTab(t) ==
    /\ t # tab
    /\ tab' = t
    /\ form' = InitAppForm
    /\ event' = [op |-> "setTab", answer |-> "none"]
    /\ UNCHANGED <<db, activeSession, schedule, pc, clock, stats>>

\* A snapshot of another installation, as exported there.
OtherSnapshot ==
    [theme |-> "FCB",
     players |-> <<[id |-> 11, name |-> 1], [id |-> 12, name |-> 2]>>,
     matches |-> << [id |-> 21, dateISO |-> 0, mode |-> "1v1",
                     teamAName |-> "Team A", teamBName |-> "Team B",
                     teamAPlayers |-> <<11>>, teamBPlayers |-> <<12>>,
                     goalsA |-> JsNumber(1), goalsB |-> JsNumber(0),
                     enteredBy |-> "Unbekannt"] >>,
     sessions |-> << [id |-> 31, title |-> 1, startedAtISO |-> 0, kings |-> <<11>>,
                      kingEnteredBy |-> "Unbekannt", bestOf |-> 3] >>]

\* A file that breaks off in the middle: not well-formed JSON.
BrokenFile == [wellFormed |-> FALSE, value |-> JSONstringify(OtherSnapshot).value]

\* The files at hand: a broken one, another installation's export, and, right after a
\* download, the export of the present snapshot.
PickableFiles ==
    {BrokenFile, JSONstringify(OtherSnapshot)}
        \cup (IF event.op = "download" THEN {JSONstringify(db)} ELSE {})

InitApp ==
    /\ db = [theme |-> "BVB", players |-> AppPlayers, matches |-> <<>>, sessions |-> <<>>]
    /\ tab = "table"
    /\ activeSession = None
    /\ form = InitAppForm
    /\ schedule = <<>>
    /\ pc = "idle"
    /\ event = [op |-> "init", answer |-> "none"]
    /\ clock = 1
    /\ stats = <<>>

NextApp ==
    \/ \E t \in AppTabs : AppSetTab(t)
    \/ \E m \in Modes : NewMatchSetMode(m)
    \/ \E team \in {"A", "B"}, id \in 1..4 : TeamPickerToggle(team, id)
    \/ \E team \in {"A", "B"}, text \in InputTexts : NumberInput(team, text)
    \/ addMatch
    \/ \E id \in 1..4 : QuickKingToggle(id)
    \/ addQuickSession
    \/ \E id \in SessionIds(db.sessions) : clearKings(id)
    \/ \E answer \in BOOLEAN : clearAll(answer)
    \/ \E t \in ThemeKeys : setTheme(t)
    \/ download
    \/ \E file \in PickableFiles : onPick(file)

SpecApp == InitApp /\ [][NextApp]_vars

(***************************************************************************)
(* Properties.  The counts below restate the specification's rules on the  *)
(* slots themselves, independently of the operators above.                 *)
(***************************************************************************)
SlotFilled(m) == m.goalsA # None /\ m.goalsB # None

SlotsWonByA(sched) == {i \in DOMAIN sched : SlotFilled(sched[i]) /\ sched[i].goalsA[1] > sched[i].goalsB[1]}

SlotsWonByB(sched) == {i \in DOMAIN sched : SlotFilled(sched[i]) /\ sched[i].goalsB[1] > sched[i].goalsA[1]}

SlotsFilled(sched) == {i \in DOMAIN sched : SlotFilled(sched[i])}

KthOf(S, k) == CHOOSE i \in S : Cardinality({j \in S : j < i}) = k - 1

CeilHalf(n) == CHOOSE k \in 0..n : 2 * k >= n /\ 2 * (k - 1) < n

ThresholdReached ==
    /\ DisplayMounted
    /\ \/ Cardinality(SlotsWonByA(schedule)) >= CeilHalf(activeSession[1].bestOf)
       \/ Cardinality(SlotsWonByB(schedule)) >= CeilHalf(activeSession[1].bestOf)

FinalizeStep ==
    /\ DisplayMounted
    /\ event'.op \in {"autoFinish", "finishSession"}
    /\ event'.answer # "declined"

LastSession(d) == d.kingSessions[Len(d.kingSessions)]

\* C1: in an active series of bestOf in {3,5,7,9} the threshold is ceil(bestOf/2); a state
\* where either team's slot wins reach it has the auto-finish pending, and the only step
\* out of it appends one KingSession and clears the active session, however many slots
\* are filled.
C1_AutoFinalize ==
    /\ [](\A b \in BestOfOptions : winsNeeded(b) = CeilHalf(b))
    /\ [](ThresholdReached => pc = "effect")
    /\ [][ThresholdReached =>
            /\ event'.op = "autoFinish"
            /\ activeSession' = None
            /\ Len(db'.kingSessions) = Len(db.kingSessions) + 1]_vars

\* C1 witness: a best-of-5 series closed by the effect with only three slots played.
C1_Witness ==
    /\ event.op = "autoFinish"
    /\ activeSession = None
    /\ Len(db.kingSessions) = 1
    /\ LastSession(db).bestOf = 5
    /\ Len(db.matches) = 3

\* C2: a finalization (auto or manual) appends one Match per slot with both scores set,
\* carrying that slot's goals in slot order, and exactly one KingSession; the older
\* matches and sessions stay in place.
C2_FinalizeAppends ==
    [][FinalizeStep =>
        LET n == Len(db.matches)
            slot(k) == schedule[KthOf(SlotsFilled(schedule), k)]
        IN  /\ Len(db'.matches) = n + Cardinality(SlotsFilled(schedule))
            /\ SubSeq(db'.matches, 1, n) = db.matches
            /\ \A k \in 1..Cardinality(SlotsFilled(schedule)) :
                  /\ Some(db'.matches[n + k].goalsA) = slot(k).goalsA
                  /\ Some(db'.matches[n + k].goalsB) = slot(k).goalsB
            /\ Len(db'.kingSessions) = Len(db.kingSessions) + 1
            /\ SubSeq(db'.kingSessions, 1, Len(db.kingSessions)) = db.kingSessions]_vars

\* C2 witness: a series stopped by hand with two slots filled, one of them a draw.
C2_Witness ==
    /\ event = [op |-> "finishSession", answer |-> "confirmed"]
    /\ Len(db.kingSessions) = 1
    /\ Len(db.matches) = 2
    /\ \E i \in DOMAIN db.matches : db.matches[i].goalsA = db.matches[i].goalsB

SessionMatches(d, sid) == {i \in DOMAIN d.matches : d.matches[i].sessionId = Some(sid)}

WonBy(m, kings) ==
    \/ m.teamAPlayers = kings /\ m.goalsA > m.goalsB
    \/ m.teamBPlayers = kings /\ m.goalsB > m.goalsA

C4_Kings ==
    [][FinalizeStep =>
        LastSession(db').kings =
            IF Cardinality(SlotsWonByA(schedule)) >= CeilHalf(activeSession[1].bestOf)
            THEN activeSession[1].teams[1].players
            ELSE IF Cardinality(SlotsWonByB(schedule)) >= CeilHalf(activeSession[1].bestOf)
            THEN activeSession[1].teams[2].players
            ELSE <<>>]_vars

\* C4 witness: team B crowned.
C4_Witness ==
    /\ event.op = "autoFinish"
    /\ Len(db.kingSessions) = 1
    /\ LastSession(db).kings # <<>>
    /\ \E i \in DOMAIN db.matches : db.matches[i].teamBPlayers = LastSession(db).kings

\* C5: a series in progress has exactly 2 teams, each with the per-team size of the
\* series' mode, and no player on both teams.
C5_StartRequiresValidTeams ==
    activeSession # None =>
        LET s == activeSession[1]
        IN  /\ Len(s.teams) = 2
            /\ \A i \in DOMAIN s.teams : Len(s.teams[i].players) = playersPerTeam(s.mode)
            /\ SeqRange(s.teams[1].players) \cap SeqRange(s.teams[2].players) = {}

\* C6: right after the start the schedule has bestOf slots with null scores; while the
\* series is in progress the active session does not change, and the displayed schedule
\* keeps bestOf slots, each carrying the session's two teams.
C6_ScheduleShape ==
    /\ [](activeSession # None =>
            /\ Len(activeSession[1].schedule) = activeSession[1].bestOf
            /\ \A i \in DOMAIN activeSession[1].schedule :
                  /\ activeSession[1].schedule[i].goalsA = None
                  /\ activeSession[1].schedule[i].goalsB = None)
    /\ [](event.op = "handleStart" => DisplayMounted /\ schedule = activeSession[1].schedule)
    /\ [](DisplayMounted =>
            /\ Len(schedule) = activeSession[1].bestOf
            /\ \A i \in DOMAIN schedule :
                  /\ schedule[i].teamA = activeSession[1].teams[1]
                  /\ schedule[i].teamB = activeSession[1].teams[2])
    /\ [][(activeSession # None /\ activeSession' # None) => activeSession' = activeSession]_vars

\* C6 witness: a started series with scores entered in its slots.
C6_Witness ==
    /\ DisplayMounted
    /\ Cardinality(SlotsFilled(schedule)) = 2

\* C7: the win tallies count exactly the slots with both scores set and a strictly
\* greater score for that team; tied and partly empty slots count for neither.
C7_SlotWins ==
    DisplayMounted =>
        /\ teamAWins(schedule) = Cardinality(SlotsWonByA(schedule))
        /\ teamBWins(schedule) = Cardinality(SlotsWonByB(schedule))

\* C7 witness: the last slot won by A while the first holds only team A's goals and the
\* second is tied.
C7_Witness ==
    /\ DisplayMounted
    /\ schedule[1].goalsA = Some(1) /\ schedule[1].goalsB = None
    /\ schedule[2].goalsA = Some(1) /\ schedule[2].goalsB = Some(1)
    /\ schedule[3].goalsA = Some(1) /\ schedule[3].goalsB = Some(0)

\* C8: a manual stop while neither team reached the threshold asks for confirmation;
\* declined, it leaves snapshot, active session and entered scores unchanged; confirmed,
\* it finalizes the series.
C8_ManualStopConfirm ==
    [][(DisplayMounted /\ ~ThresholdReached /\ event'.op = "finishSession") =>
        /\ event'.answer \in {"confirmed", "declined"}
        /\ event'.answer = "declined" => UNCHANGED <<db, activeSession, schedule>>
        /\ event'.answer = "confirmed" =>
              /\ activeSession' = None
              /\ Len(db'.kingSessions) = Len(db.kingSessions) + 1]_vars

\* C8 witness: a declined manual stop with scores on the board.
C8_Witness ==
    /\ event = [op |-> "finishSession", answer |-> "declined"]
    /\ DisplayMounted
    /\ Cardinality(SlotsFilled(schedule)) >= 1

\* C9: entering scores and abandoning never touch the snapshot; a confirmed abandon
\* discards the active series, a declined one leaves it and its scores as they were.
C9_Abandon ==
    [][(DisplayMounted /\ event'.op \in {"updateScore", "effect", "cancel"}) =>
        /\ db' = db
        /\ event'.op = "cancel" =>
              /\ event'.answer = "confirmed" => activeSession' = None
              /\ event'.answer = "declined" => UNCHANGED <<activeSession, schedule>>]_vars

\* C9 witness: a series abandoned after confirmation, nothing stored.
C9_Witness ==
    /\ event = [op |-> "cancel", answer |-> "confirmed"]
    /\ activeSession = None
    /\ db.matches = <<>>
    /\ db.kingSessions = <<>>

\* C10: every standings record has points = 3 * wins + draws.
C10_PointsLaw ==
    \A i \in DOMAIN stats : stats[i].points = 3 * stats[i].wins + stats[i].draws

\* C10 witness: a player with a win and a draw.
C10_Witness ==
    \E i \in DOMAIN stats : stats[i].wins >= 1 /\ stats[i].draws >= 1

\* C11: every standings record has goalDiff = goalsFor - goalsAgainst and
\* wins + draws + losses = played.
C11_GoalDiffLaw ==
    \A i \in DOMAIN stats :
        /\ stats[i].goalDiff = stats[i].goalsFor - stats[i].goalsAgainst
        /\ stats[i].wins + stats[i].draws + stats[i].losses = stats[i].played

\* C11 witness: a player with a negative goal difference and two matches played.
C11_Witness ==
    \E i \in DOMAIN stats : stats[i].goalDiff < 0 /\ stats[i].played = 2

RowOf(rows, id) == rows[CHOOSE i \in DOMAIN rows : rows[i].id = id]

OnSide(pid, side) == \E k \in DOMAIN side : side[k] = pid

B2N(b) == IF b THEN 1 ELSE 0

\* C12: the last match of the list changes the standings by exactly its own credit: to a
\* roster player on the side with strictly more goals one win, on the side with fewer one
\* loss, on either side of a tie one draw, with one match played, the own side's goals
\* for and the other side's goals against; to every other roster player nothing.
C12_MatchCredit ==
    (tab = "table" /\ db.matches # <<>>) =>
        LET m == db.matches[Len(db.matches)]
            before == computeStandings(db.players, SubSeq(db.matches, 1, Len(db.matches) - 1))
        IN  \A pid \in PlayerIds(db.players) :
                LET old == RowOf(before, pid)
                    new == RowOf(stats, pid)
                    onA == OnSide(pid, m.teamAPlayers)
                    onB == OnSide(pid, m.teamBPlayers)
                    for == IF onA THEN m.goalsA ELSE IF onB THEN m.goalsB ELSE 0
                    against == IF onA THEN m.goalsB ELSE IF onB THEN m.goalsA ELSE 0
                IN  /\ new.played = old.played + B2N(onA \/ onB)
                    /\ new.wins = old.wins + B2N((onA \/ onB) /\ for > against)
                    /\ new.losses = old.losses + B2N((onA \/ onB) /\ for < against)
                    /\ new.draws = old.draws + B2N((onA \/ onB) /\ for = against)
                    /\ new.goalsFor = old.goalsFor + for
                    /\ new.goalsAgainst = old.goalsAgainst + against

\* C12 witness: the table of a single 2v2 match that side B won.
C12_Witness ==
    /\ tab = "table"
    /\ Len(db.matches) = 1
    /\ Len(db.matches[1].teamAPlayers) = 2
    /\ db.matches[1].goalsB > db.matches[1].goalsA
    /\ \E i \in DOMAIN stats : stats[i].wins = 1
    /\ \E i \in DOMAIN stats : stats[i].losses = 1

Participants(m) == SeqRange(m.teamAPlayers) \cup SeqRange(m.teamBPlayers)

\* C13: the table has exactly one row per roster player and none for any other id; a
\* match that names an id missing from the roster still counts as one match played for
\* each of its roster players.
C13_RosterOnly ==
    tab = "table" =>
        /\ Len(stats) = Len(db.players)
        /\ \A pid \in PlayerIds(db.players) :
              Cardinality({i \in DOMAIN stats : stats[i].id = pid}) = 1
        /\ \A i \in DOMAIN stats :
              /\ stats[i].id \in PlayerIds(db.players)
              /\ stats[i].played =
                    Cardinality({k \in DOMAIN db.matches : stats[i].id \in Participants(db.matches[k])})

\* C13 witness: a 2v2 match whose first team-A player was deleted; the partner is credited.
C13_Witness ==
    /\ tab = "table"
    /\ \E k \in DOMAIN db.matches :
          /\ Len(db.matches[k].teamAPlayers) = 2
          /\ db.matches[k].teamAPlayers[1] \notin PlayerIds(db.players)
          /\ \E i \in DOMAIN stats :
                stats[i].id = db.matches[k].teamAPlayers[2] /\ stats[i].played >= 1

\* C14: the rows of the table are in descending order of points, then of goal difference,
\* then of goals for, then in ascending order of name.
C14_TableOrder ==
    \A i, j \in DOMAIN stats :
        i < j =>
            \/ stats[i].points > stats[j].points
            \/ /\ stats[i].points = stats[j].points
               /\ \/ stats[i].goalDiff > stats[j].goalDiff
                  \/ /\ stats[i].goalDiff = stats[j].goalDiff
                     /\ \/ stats[i].goalsFor > stats[j].goalsFor
                        \/ /\ stats[i].goalsFor = stats[j].goalsFor
                           /\ stats[i].name <= stats[j].name

\* C14 witness: a table whose order differs from the roster's in points, and two rows
\* level on points and goal difference that goals for decides.
C14_Witness ==
    /\ \E i \in DOMAIN stats : stats[i].id # db.players[i].id /\ stats[i].points > 0
    /\ \E i, j \in DOMAIN stats :
          /\ i < j
          /\ stats[i].points = stats[j].points
          /\ stats[i].goalDiff = stats[j].goalDiff
          /\ stats[i].goalsFor > stats[j].goalsFor

\* C15 as stated: two rows with equal points and equal goal difference are in ascending
\* order of name.
C15_TieBreakByName ==
    \A i, j \in DOMAIN stats :
        (i < j /\ stats[i].points = stats[j].points /\ stats[i].goalDiff = stats[j].goalDiff)
            => stats[i].name <= stats[j].name

\* C15 amended: two rows with equal points, equal goal difference and equal goals for are
\* in ascending order of name.
C15_TieBreakAmended ==
    \A i, j \in DOMAIN stats :
        (/\ i < j
         /\ stats[i].points = stats[j].points
         /\ stats[i].goalDiff = stats[j].goalDiff
         /\ stats[i].goalsFor = stats[j].goalsFor)
            => stats[i].name < stats[j].name

\* C15 witness: two rows level on points, goal difference and goals for, none of them
\* zero, that stand in the roster in descending order of name.
C15_Witness ==
    \E i, j \in DOMAIN stats :
        /\ i < j
        /\ stats[i].points = stats[j].points /\ stats[i].points > 0
        /\ stats[i].goalDiff = stats[j].goalDiff
        /\ stats[i].goalsFor = stats[j].goalsFor /\ stats[i].goalsFor > 0
        /\ \E a, b \in DOMAIN db.players :
              a < b /\ db.players[a].id = stats[j].id /\ db.players[b].id = stats[i].id

(***************************************************************************)
(* Streak properties.  Chron puts the sessions in order of time by rank,   *)
(* TrailingRun counts a player's latest consecutive titles directly.       *)
(***************************************************************************)
CurrentOf(info, pid) ==
    IF \E i \in DOMAIN info.currentKings : info.currentKings[i].id = pid
    THEN info.currentKings[CHOOSE i \in DOMAIN info.currentKings : info.currentKings[i].id = pid].streak
    ELSE 0

Chron(sessions) ==
    [k \in DOMAIN sessions |->
        CHOOSE s \in SeqRange(sessions) :
            Cardinality({t \in SeqRange(sessions) : t.dateISO < s.dateISO}) = k - 1]

UpTo(d, n) == [d EXCEPT !.kingSessions = SubSeq(Chron(@), 1, n)]

TrailingRun(sessions, pid) ==
    LET won == SelectSeq(sessions, LAMBDA s : s.kings # <<>>)
        runs == {k \in 0..Len(won) :
                    \A j \in (Len(won) - k + 1)..Len(won) : pid \in SeqRange(won[j].kings)}
    IN  MaxOf(runs)

Larger(a, b) == IF a > b THEN a ELSE b

\* C16: for every roster player, in every snapshot (stored sessions in any order, titles
\* revoked, players deleted), longestStreak >= currentStreak.
C16_LongestAtLeastCurrent ==
    \A pid \in PlayerIds(db.players) : kingInfo.longestStreaks[pid] >= CurrentOf(kingInfo, pid)

\* C16 witness: after a revocation and a deletion, a player whose running streak of two is
\* longer than any streak that ended before.
C16_Witness ==
    /\ event.op = "deletePlayer" /\ event.answer = "confirmed"
    /\ \E i \in DOMAIN db.kingSessions : db.kingSessions[i].kings = <<>>
    /\ \E pid \in PlayerIds(db.players) :
          CurrentOf(kingInfo, pid) = 2 /\ kingInfo.longestStreaks[pid] = 2

\* C17: at every session with a winner, a roster player who held the k latest titles and
\* is not among its kings has currentStreak 0 and longestStreak >= k afterwards, and each
\* roster player among its kings has a currentStreak one higher than before.
C17_StreakReset ==
    \A n \in DOMAIN db.kingSessions :
        LET session == Chron(db.kingSessions)[n]
            before == useKingInfo(UpTo(db, n - 1))
            after == useKingInfo(UpTo(db, n))
        IN  session.kings # <<>> =>
                \A pid \in PlayerIds(db.players) :
                    IF pid \in SeqRange(session.kings)
                    THEN CurrentOf(after, pid) = CurrentOf(before, pid) + 1
                    ELSE /\ CurrentOf(after, pid) = 0
                         /\ after.longestStreaks[pid]
                                >= TrailingRun(SubSeq(Chron(db.kingSessions), 1, n - 1), pid)

\* C17 witness: S1 = [P1], S2 = [P1], S3 = [P2] in order of time, stored in another
\* order: P1 current 0 and longest 2, P2 current 1.
C17_Witness ==
    /\ Len(db.kingSessions) = 3
    /\ [n \in 1..3 |-> Chron(db.kingSessions)[n].kings] = << <<1>>, <<1>>, <<2>> >>
    /\ db.kingSessions[1].dateISO = 3
    /\ {1, 2} \subseteq PlayerIds(db.players)
    /\ CurrentOf(kingInfo, 1) = 0
    /\ kingInfo.longestStreaks[1] = 2
    /\ CurrentOf(kingInfo, 2) = 1

\* C18 as stated: every session in order of time, one without kings included, adds one to
\* the running counter of each roster player among its kings and, for every other roster
\* player, flushes the counter into longestStreak if larger and resets it to zero.
C18_EverySessionWalked ==
    \A n \in DOMAIN db.kingSessions :
        LET session == Chron(db.kingSessions)[n]
            before == useKingInfo(UpTo(db, n - 1))
            after == useKingInfo(UpTo(db, n))
        IN  \A pid \in PlayerIds(db.players) :
                IF pid \in SeqRange(session.kings)
                THEN CurrentOf(after, pid) = CurrentOf(before, pid) + 1
                ELSE /\ CurrentOf(after, pid) = 0
                     /\ after.longestStreaks[pid]
                            = Larger(before.longestStreaks[pid], CurrentOf(before, pid))

\* C18 amended: every session with a winner does so; a session whose kings list is empty
\* changes no counter.
C18_WinnerSessionsWalked ==
    \A n \in DOMAIN db.kingSessions :
        LET session == Chron(db.kingSessions)[n]
            before == useKingInfo(UpTo(db, n - 1))
            after == useKingInfo(UpTo(db, n))
        IN  IF session.kings = <<>>
            THEN after = before
            ELSE \A pid \in PlayerIds(db.players) :
                    IF pid \in SeqRange(session.kings)
                    THEN /\ CurrentOf(after, pid) = CurrentOf(before, pid) + 1
                         /\ after.longestStreaks[pid]
                                = Larger(before.longestStreaks[pid], CurrentOf(before, pid) + 1)
                    ELSE /\ CurrentOf(after, pid) = 0
                         /\ after.longestStreaks[pid]
                                = Larger(before.longestStreaks[pid], CurrentOf(before, pid))

\* C18 witness: a title revoked between two titles of the same player, whose streak runs
\* on across it.
C18_Witness ==
    /\ event = [op |-> "removeKingTitle", answer |-> "confirmed"]
    /\ Len(db.kingSessions) = 3
    /\ Chron(db.kingSessions)[2].kings = <<>>
    /\ \E pid \in PlayerIds(db.players) :
          /\ pid \in SeqRange(Chron(db.kingSessions)[1].kings)
          /\ pid \in SeqRange(Chron(db.kingSessions)[3].kings)
          /\ CurrentOf(kingInfo, pid) = 2

\* C19: whatever order the same KingSession records (of distinct timestamps) are stored
\* in, currentKings with their streaks and longestStreaks are the same.
C19_StoredOrderIrrelevant ==
    \A f \in Orders(Len(db.kingSessions)) :
        useKingInfo([db EXCEPT !.kingSessions = [i \in DOMAIN @ |-> @[f[i]]]]) = kingInfo

\* C19 witness: sessions stored latest first, the earlier title another player's.
C19_Witness ==
    /\ Len(db.kingSessions) >= 2
    /\ db.kingSessions[1].dateISO > db.kingSessions[2].dateISO
    /\ db.kingSessions[1].kings # <<>>
    /\ db.kingSessions[2].kings # <<>>
    /\ SeqRange(db.kingSessions[1].kings) \cap SeqRange(db.kingSessions[2].kings) = {}
    /\ \E pid \in SeqRange(db.kingSessions[1].kings) : CurrentOf(kingInfo, pid) >= 1

\* C20: every Match a finalization appends carries its slot's goals, the names and player
\* lists of the slot's two teams, the series' mode, enteredBy = "Session", the timestamp
\* of the KingSession appended by the same step, and that KingSession's id as sessionId.
C20_MatchFields ==
    [][FinalizeStep =>
        LET n == Len(db.matches)
            slot(k) == schedule[KthOf(SlotsFilled(schedule), k)]
            created == LastSession(db')
        IN  \A k \in 1..(Len(db'.matches) - n) :
                LET m == db'.matches[n + k]
                IN  /\ <<m.goalsA>> = slot(k).goalsA
                    /\ <<m.goalsB>> = slot(k).goalsB
                    /\ m.teamAName = slot(k).teamA.name
                    /\ m.teamBName = slot(k).teamB.name
                    /\ m.teamAPlayers = slot(k).teamA.players
                    /\ m.teamBPlayers = slot(k).teamB.players
                    /\ m.mode = activeSession[1].mode
                    /\ m.enteredBy = "Session"
                    /\ m.dateISO = created.dateISO
                    /\ m.sessionId = <<created.id>>
                    /\ created.id \notin SessionIds(db.kingSessions)]_vars

\* C20 witness: a decided series stored with three matches, one series identifier and one
\* timestamp on all of them.
C20_Witness ==
    /\ event.op = "autoFinish"
    /\ Len(db.kingSessions) = 1
    /\ Len(db.matches) = 3
    /\ \A i \in DOMAIN db.matches :
          /\ db.matches[i].sessionId = <<db.kingSessions[1].id>>
          /\ db.matches[i].dateISO = db.kingSessions[1].dateISO
          /\ db.matches[i].enteredBy = "Session"
(***************************************************************************)
(* Stored sessions, the roster and the snapshot file.                      *)
(***************************************************************************)
SessionsOf(d) == IF "sessions" \in DOMAIN d THEN d.sessions ELSE d.kingSessions

RevokeOps == {"removeKingTitle", "clearKings"}

\* Session s of the old snapshot is still in the new list d2: as it was, or, where
\* mayClear, with its kings emptied and every other field as it was.
SessionKept(s, d2, mayClear) ==
    \E j \in DOMAIN SessionsOf(d2) :
        LET t == SessionsOf(d2)[j]
        IN  /\ t.id = s.id
            /\ \/ t = s
               \/ mayClear /\ t = [s EXCEPT !.kings = <<>>]

\* A revocation step touches at most one session and nothing else of the snapshot.
RevocationFrame ==
    event'.op \in RevokeOps =>
        /\ db'.players = db.players
        /\ db'.matches = db.matches
        /\ Len(SessionsOf(db')) = Len(SessionsOf(db))
        /\ Cardinality({i \in DOMAIN SessionsOf(db) : SessionsOf(db')[i] # SessionsOf(db)[i]}) <= 1

WholeSnapshotReplaced ==
    \/ event'.op = "clearAll" /\ event'.answer = "confirmed"
    \/ event'.op = "onPick" /\ event'.answer = "parsed"

C22_DeleteOnlyPlayer ==
    [][ event'.op = "deletePlayer" =>
          /\ event'.answer = "declined" => db' = db
          /\ event'.answer = "confirmed" =>
                /\ \E id \in PlayerIds(db.players) :
                      PlayerIds(db'.players) = PlayerIds(db.players) \ {id}
                /\ Len(db'.players) = Len(db.players) - 1
                /\ SeqRange(db'.players) \subseteq SeqRange(db.players)
                /\ db'.matches = db.matches
                /\ SessionsOf(db') = SessionsOf(db) ]_vars

\* C22 witness: a player has been deleted after confirmation, and a stored match
\* and a stored session still name an id that is no longer on the roster.
C22_Witness ==
    /\ event.op = "deletePlayer"
    /\ event.answer = "confirmed"
    /\ \E i \in DOMAIN db.matches :
          \E x \in SeqRange(db.matches[i].teamAPlayers) \cup SeqRange(db.matches[i].teamBPlayers) :
              x \notin PlayerIds(db.players)
    /\ \E i \in DOMAIN SessionsOf(db) :
          \E x \in SeqRange(SessionsOf(db)[i].kings) : x \notin PlayerIds(db.players)

\* C23: an import of text that is not well formed leaves the snapshot as it was;
\* an import of a well-formed file makes players, matches and sessions those of
\* the file and keeps the theme that was active.
C23_ImportReplacesOrKeeps ==
    [][ event'.op = "onPick" =>
          IF ~event'.file.wellFormed
          THEN db' = db
          ELSE /\ db'.players = event'.file.value.players
               /\ db'.sessions = event'.file.value.sessions
               /\ db'.matches = JSONparse(event'.file).data.matches
               /\ db'.theme = db.theme ]_vars

\* C23 witness: another installation's export has been imported over different
\* data, and the theme is still not the file's.
C23_Witness ==
    /\ event.op = "onPick"
    /\ event.answer = "parsed"
    /\ event.file = JSONstringify(OtherSnapshot)
    /\ db.players = OtherSnapshot.players
    /\ db.matches = OtherSnapshot.matches
    /\ db.sessions = OtherSnapshot.sessions
    /\ db.theme = "FALCO"

\* C24: importing the text that was just exported, with the same theme active,
\* gives a snapshot with the players, matches and sessions of the original.
C24_ExportImportRoundTrip ==
    [][ (event.op = "download" /\ event'.op = "onPick" /\ event'.file = JSONstringify(db)) =>
          /\ db'.theme = db.theme
          /\ db'.players = db.players
          /\ db'.matches = db.matches
          /\ db'.sessions = db.sessions ]_vars

\* C25: every stored Match has two disjoint teams, each of the size of its mode
\* (1 for 1v1, 2 for 2v2).
C25_MatchTeamsWellFormed ==
    \A i \in DOMAIN db.matches :
        LET m == db.matches[i]
            size == IF m.mode = "1v1" THEN 1 ELSE 2
        IN  /\ Len(m.teamAPlayers) = size
            /\ Len(m.teamBPlayers) = size
            /\ SeqRange(m.teamAPlayers) \cap SeqRange(m.teamBPlayers) = {}

\* C26: a series is finalized at most once.  A step adds at most one KingSession;
\* the step that adds one ends the active series, gives the record a fresh id and
\* adds at most one Match per slot under that id; no two records share an id, and
\* no session has more matches than its series had slots.
C26_FinalizedOnce ==
    /\ [][ /\ Len(db'.kingSessions) <= Len(db.kingSessions) + 1
           /\ Len(db'.kingSessions) = Len(db.kingSessions) + 1 =>
                 /\ activeSession # None
                 /\ activeSession' = None
                 /\ LastSession(db').id \notin SessionIds(db.kingSessions)
                 /\ Len(db'.matches) - Len(db.matches) <= Cardinality(SlotsFilled(schedule))
                 /\ Cardinality(SessionMatches(db', LastSession(db').id))
                       = Len(db'.matches) - Len(db.matches) ]_vars
    /\ [](\A i, j \in DOMAIN db.kingSessions :
              db.kingSessions[i].id = db.kingSessions[j].id => i = j)
    /\ [](\A i \in DOMAIN db.kingSessions :
              Cardinality(SessionMatches(db, db.kingSessions[i].id)) <= db.kingSessions[i].bestOf)

\* C26 witness: a decided series was saved with a match for each of its three
\* slots, and the session tab has been left and entered again since.
C26_Witness ==
    /\ event.op = "setTab"
    /\ tab = "session"
    /\ pc = "idle"
    /\ activeSession = None
    /\ Len(db.kingSessions) = 1
    /\ LastSession(db).kings # <<>>
    /\ Cardinality(SessionMatches(db, LastSession(db).id)) = 3

\* C27: entering, changing or clearing a slot score, and the effect that follows
\* it without finalizing, leave the snapshot as it was, and with it the current
\* kings and the streaks.
C27_ScoresStayLocal ==
    [][ event'.op \in {"updateScore", "effect"} =>
          /\ db' = db
          /\ activeSession' = activeSession
          /\ useKingInfo(db').currentKings = kingInfo.currentKings
          /\ useKingInfo(db').longestStreaks = kingInfo.longestStreaks ]_vars

\* C27 witness: team A leads a best-of-3 series by one slot, the effect has run
\* without finalizing, and nobody is king.
C27_Witness ==
    /\ DisplayMounted
    /\ event.op = "effect"
    /\ Cardinality(SlotsWonByA(schedule)) = 1
    /\ Cardinality(SlotsWonByB(schedule)) = 0
    /\ db.kingSessions = <<>>
    /\ db.matches = <<>>
    /\ kingInfo.currentKings = <<>>

\* C28: while a series stays in progress, a step other than a score entry keeps
\* every filled slot of the shown schedule as it is; a tab switch is such a step.
C28_ScoresRetained ==
    [][ (activeSession # None /\ activeSession' = activeSession /\ event'.op # "updateScore") =>
          \A i \in SlotsFilled(schedule) :
              /\ i \in DOMAIN schedule'
              /\ schedule'[i].goalsA = schedule[i].goalsA
              /\ schedule'[i].goalsB = schedule[i].goalsB ]_vars

\* C29: in a series in progress the two slot-win counts sum to at most bestOf,
\* bestOf is odd, and at most one team has reached winsNeeded.
C29_OneTeamAtThreshold ==
    DisplayMounted =>
        LET bestOf == activeSession[1].bestOf
        IN  /\ bestOf % 2 = 1
            /\ teamAWins(schedule) + teamBWins(schedule) <= bestOf
            /\ ~(/\ teamAWins(schedule) >= winsNeeded(bestOf)
                 /\ teamBWins(schedule) >= winsNeeded(bestOf))

\* C29 witness: in a best-of-5 series team B has just reached three slot wins
\* while team A stands at two.
C29_Witness ==
    /\ DisplayMounted
    /\ pc = "effect"
    /\ activeSession[1].bestOf = 5
    /\ teamBWins(schedule) = 3
    /\ teamAWins(schedule) = 2

\* The kings of the latest session, in order of time, that has any.
LatestWinners(sessions) ==
    LET won == SelectSeq(Chron(sessions), LAMBDA x : x.kings # <<>>)
    IN  IF won = <<>> THEN {} ELSE SeqRange(won[Len(won)].kings)

\* C30: the current kings are exactly the roster players among the kings of the
\* latest session with a winner (nobody when there is none), each listed once
\* with a streak of at least 1, and they are never more than 2.
C30_CurrentKingsAreLatestWinners ==
    /\ {kingInfo.currentKings[i].id : i \in DOMAIN kingInfo.currentKings}
          = PlayerIds(db.players) \cap LatestWinners(db.kingSessions)
    /\ \A i, j \in DOMAIN kingInfo.currentKings :
          kingInfo.currentKings[i].id = kingInfo.currentKings[j].id => i = j
    /\ \A i \in DOMAIN kingInfo.currentKings : kingInfo.currentKings[i].streak >= 1
    /\ Len(kingInfo.currentKings) <= 2

\* C30 witness: the latest title was revoked and one of the two kings of the
\* title before it was deleted: the other one is the only current king, while a
\* winner of an older session is still on the roster.
C30_Witness ==
    /\ Len(db.kingSessions) = 3
    /\ Chron(db.kingSessions)[3].kings = <<>>
    /\ Len(Chron(db.kingSessions)[2].kings) = 2
    /\ Len(db.players) = 3
    /\ Len(kingInfo.currentKings) = 1
    /\ \E pid \in PlayerIds(db.players) :
          /\ pid \in SeqRange(Chron(db.kingSessions)[1].kings)
          /\ pid \notin SeqRange(Chron(db.kingSessions)[2].kings)

====
